---- MODULE Spec2Model ----
(***************************************************************************)
(* A model of two files of PaddleRS:                                       *)
(*   paddlers/models/paddleseg/cvlibs/config.py        (class Config)      *)
(*   paddlers/models/ppdet/modeling/heads/centernet_head.py                *)
(*                                                      (CenterNetHead)    *)
(*                                                                         *)
(* Python values are tagged records [k |-> kind, v |-> payload]: a dict is *)
(* a function from its keys (strings) to values, a list is a sequence.     *)
(* An exception is the value Err(name); an operator that models a method   *)
(* returns either its result or the exception the method raises.           *)
(***************************************************************************)
EXTENDS Integers, Sequences, FiniteSets, TLC

VARIABLES
    files,      \* the file system: path -> the value yaml.load gives for it
    registry,   \* manager.MODELS .. manager.LOSSES: registry -> (name -> class)
    cfg,        \* the Config object (NoConfig before a construction succeeds)
    ret,        \* what the last operation returned
    exc,        \* the exception the last operation raised (NoExc: none)
    lastOp,     \* the last operation that ran
    calls,      \* the constructor calls the last operation made, in order
    head,       \* the CenterNetHead object (NoHead before construction)
    out         \* what the last CenterNetHead.forward returned

vars == <<files, registry, cfg, ret, exc, lastOp, calls, head, out>>

----------------------------------------------------------------------------
(* Python values *)

IntV(n) == [k |-> "int", v |-> n]
Str(s) == [k |-> "str", v |-> s]
Bool(b) == [k |-> "bool", v |-> b]
Float(s) == [k |-> "float", v |-> s]
Dict(f) == [k |-> "dict", v |-> f]
List(s) == [k |-> "list", v |-> s]
None == [k |-> "none", v |-> "None"]
Err(e) == [k |-> "err", v |-> e]

IsDict(x) == x.k = "dict"
IsList(x) == x.k = "list"
IsErr(x) == x.k = "err"
IsNone(x) == x.k = "none"

EmptyMap == [z \in {} |-> None]
EmptyDict == Dict(EmptyMap)

\* key in d
HasKey(d, key) == key \in DOMAIN d.v
\* d.get(key, default)
DictGet(d, key, default) == IF HasKey(d, key) THEN d.v[key] ELSE default
\* d[key] = val
DictSet(d, key, val) ==
    Dict([x \in DOMAIN d.v \cup {key} |-> IF x = key THEN val ELSE d.v[x]])
\* d.pop(key), the dict that is left
DictDel(d, key) == Dict([x \in DOMAIN d.v \ {key} |-> d.v[x]])
\* len(x) of a dict or list
PyLen(x) == IF IsDict(x) THEN Cardinality(DOMAIN x.v) ELSE Len(x.v)
\* x == False in Python: False, 0 and 0.0 compare equal to False
EqualsFalse(x) ==
    \/ x.k = "bool" /\ x.v = FALSE
    \/ x.k = "int" /\ x.v = 0
\* bool(x): the truth value Python gives x
Truthy(x) ==
    CASE x.k = "none" -> FALSE
      [] x.k = "bool" -> x.v
      [] x.k = "int" -> x.v # 0
      [] x.k = "str" -> x.v # ""
      [] x.k = "float" -> x.v \notin {"0.0", "0"}
      [] x.k = "dict" -> DOMAIN x.v # {}
      [] x.k = "list" -> x.v # <<>>
      [] OTHER -> TRUE

----------------------------------------------------------------------------
(* Config._update_dic and Config._parse_from_yaml *)

RECURSIVE UpdateDicLoop(_, _, _)
RECURSIVE _update_dic(_, _)

\* A mutant of the loop: a dict of dic replaces the one of base_dic, unmerged.
RECURSIVE UpdateDicLoopShallow(_, _, _)
UpdateDicLoopShallow(keys, dic, base_dic) ==
    IF keys = {} THEN base_dic
    ELSE LET key == CHOOSE x \in keys : TRUE
         IN  UpdateDicLoopShallow(keys \ {key}, dic,
                                  DictSet(base_dic, key, dic.v[key]))

\* The loop of _update_dic over the items of dic that are left (keys),
\* writing into the copy of base_dic.
UpdateDicLoop(keys, dic, base_dic) ==
    IF keys = {} THEN base_dic
    ELSE LET key == CHOOSE x \in keys : TRUE
             val == dic.v[key]
             new == IF IsDict(val) /\ HasKey(base_dic, key)
                    THEN _update_dic(val, base_dic.v[key])
                    ELSE val
         IN  IF IsErr(new) THEN new
             ELSE UpdateDicLoop(keys \ {key}, dic, DictSet(base_dic, key, new))

_update_dic(dic, base_dic) ==
    IF base_dic.k \notin {"dict", "list"}
    THEN Err("AttributeError")                     \* base_dic.copy()
    ELSE IF EqualsFalse(DictGet(dic, "_inherited_", Bool(TRUE)))
    THEN DictDel(dic, "_inherited_")
    ELSE IF IsList(base_dic)
    THEN IF DOMAIN dic.v = {} THEN base_dic
         ELSE Err("TypeError")                     \* base_dic[key] on a list
    ELSE UpdateDicLoop(DOMAIN dic.v, dic, base_dic)

\* A path is [dir, name]; "" is the empty path.
Path(d, n) == [dir |-> d, name |-> n]
EmptyPath == Path("", "")
\* os.path.dirname(path)
DirName(path) == path.dir
\* os.path.join(cfg_dir, base_path), base_path a relative file name
PathJoin(cfg_dir, base_path) == Path(cfg_dir, base_path)

RECURSIVE _parse_from_yaml(_, _)
_parse_from_yaml(fs, path) ==
    IF path \notin DOMAIN fs THEN Err("FileNotFoundError")  \* codecs.open
    ELSE LET dic == fs[path]
         IN  IF HasKey(dic, "_base_")
             THEN LET cfg_dir == DirName(path)
                      base_path == PathJoin(cfg_dir, dic.v["_base_"].v)
                      base_dic == _parse_from_yaml(fs, base_path)
                  IN  IF IsErr(base_dic) THEN base_dic
                      ELSE _update_dic(DictDel(dic, "_base_"), base_dic)
             ELSE dic

----------------------------------------------------------------------------
(* The component registry, Config._load_component and Config._load_object *)

\* A component class: its name and its class attributes.
Class(name, attrs) == [k |-> "class", v |-> name, attrs |-> attrs]
\* hasattr(cls, attr)
HasAttr(cls, attr) == attr \in DOMAIN cls.attrs
\* component(**params): the object, which records its class and arguments
New(component, params) == [k |-> "obj", v |-> component, params |-> params]

\* The registries in the order Config._load_component searches them.
com_list == <<"MODELS", "BACKBONES", "DATASETS", "TRANSFORMS", "LOSSES">>

\* com_name in com.components_dict
InComponents(com, com_name) == com_name \in DOMAIN com
\* com[com_name]
ComponentGet(com, com_name) == com[com_name]

RECURSIVE LoadComponentLoop(_, _, _)
\* The for loop of _load_component from the i-th registry on; its else branch
\* runs when the list is exhausted.
LoadComponentLoop(reg, com_name, i) ==
    IF i > Len(com_list) THEN Err("RuntimeError")
    ELSE IF InComponents(reg[com_list[i]], com_name)
    THEN ComponentGet(reg[com_list[i]], com_name)
    ELSE LoadComponentLoop(reg, com_name, i + 1)

\* A mutant: the registries are searched from the last one back.
RECURSIVE LoadComponentBackwards(_, _, _)
LoadComponentBackwards(reg, com_name, i) ==
    IF i < 1 THEN Err("RuntimeError")
    ELSE IF InComponents(reg[com_list[i]], com_name)
    THEN ComponentGet(reg[com_list[i]], com_name)
    ELSE LoadComponentBackwards(reg, com_name, i - 1)
LoadComponentLast(reg, com_name) ==
    LoadComponentBackwards(reg, com_name, Len(com_list))

_load_component(reg, com_name) == LoadComponentLoop(reg, com_name, 1)

\* A mutant: every dict counts as the description of an object.
IsMetaAnyDict(item) == IsDict(item)

\* Config._is_meta_type
_is_meta_type(item) == IsDict(item) /\ HasKey(item, "type")

\* _load_object and its loops return [val, calls]: the value (or the
\* exception) and the constructor calls made, in order.
Res(val, cs) == [val |-> val, calls |-> cs]

RECURSIVE _load_object(_, _)
RECURSIVE LoadParamsLoop(_, _, _, _, _)
RECURSIVE LoadItemsLoop(_, _, _, _, _)

\* The list comprehension of _load_object over val[i..]: items holds the
\* items built so far.
LoadItemsLoop(reg, val, i, items, cs) ==
    IF i > Len(val.v) THEN Res(List(items), cs)
    ELSE LET item == val.v[i]
         IN  IF _is_meta_type(item)
             THEN LET r == _load_object(reg, item)
                  IN  IF IsErr(r.val) THEN Res(r.val, cs \o r.calls)
                      ELSE LoadItemsLoop(reg, val, i + 1,
                                         Append(items, r.val), cs \o r.calls)
             ELSE LoadItemsLoop(reg, val, i + 1, Append(items, item), cs)

\* The loop of _load_object over the items of cfg that are left (keys).
LoadParamsLoop(reg, cfg_, keys, params, cs) ==
    IF keys = {} THEN Res(Dict(params), cs)
    ELSE LET key == CHOOSE x \in keys : TRUE
             val == cfg_.v[key]
             r == IF _is_meta_type(val) THEN _load_object(reg, val)
                  ELSE IF IsList(val)
                  THEN LoadItemsLoop(reg, val, 1, <<>>, <<>>)
                  ELSE Res(val, <<>>)
         IN  IF IsErr(r.val) THEN Res(r.val, cs \o r.calls)
             ELSE LoadParamsLoop(reg, cfg_, keys \ {key},
                                 DictSet(Dict(params), key, r.val).v,
                                 cs \o r.calls)

_load_object(reg, cfg_) ==
    IF ~HasKey(cfg_, "type") THEN Res(Err("RuntimeError"), <<>>)
    ELSE LET component == _load_component(reg, cfg_.v["type"].v)
         IN  IF IsErr(component) THEN Res(component, <<>>)
             ELSE LET p == LoadParamsLoop(reg, DictDel(cfg_, "type"),
                                          DOMAIN cfg_.v \ {"type"},
                                          EmptyMap, <<>>)
                  IN  IF IsErr(p.val) THEN p
                      ELSE LET obj == New(component, p.val.v)
                           IN  Res(obj, Append(p.calls, obj))

----------------------------------------------------------------------------
(* Config.update and Config.__init__ *)

NoExc == None
NoConfig == None
\* The attribute _distill_losses does not exist until distill_loss is read.
Unset == [k |-> "unset", v |-> "unset"]

\* What a method leaves: the config dict (or object) and what it raised.
St(dic, e) == [dic |-> dic, exc |-> e]

\* ast.literal_eval on the option strings: a number, a constant or a list
\* literal is evaluated, anything else raises ValueError or SyntaxError.
literal_eval(s) ==
    CASE s = "1" -> IntV(1)
      [] s = "2" -> IntV(2)
      [] s = "3" -> IntV(3)
      [] s = "None" -> None
      [] s = "[1, 1]" -> List(<<IntV(1), IntV(1)>>)
      [] OTHER -> Err("ValueError")

\* key.split('.')
Split(key) ==
    CASE key = "model.num_classes" -> <<"model", "num_classes">>
      [] key = "model.backbone.in_channels" ->
             <<"model", "backbone", "in_channels">>
      [] key = "train_dataset.type" -> <<"train_dataset", "type">>
      [] key = "val_dataset.img_channels" -> <<"val_dataset", "img_channels">>
      [] key = "loss.coef" -> <<"loss", "coef">>
      [] key = "iters.value" -> <<"iters", "value">>
      [] OTHER -> <<key>>

RECURSIVE SetPath(_, _, _)
\* The walk of update over key_list (setdefault, then descend) and the final
\* dic[key_list[-1]] = value.
SetPath(dic, key_list, value) ==
    IF Len(key_list) = 1
    THEN IF IsDict(dic) THEN DictSet(dic, key_list[1], value)
         ELSE Err("TypeError")
    ELSE IF ~IsDict(dic) THEN Err("AttributeError")
    ELSE LET r == SetPath(DictGet(dic, key_list[1], EmptyDict),
                          Tail(key_list), value)
         IN  IF IsErr(r) THEN r ELSE DictSet(dic, key_list[1], r)

RECURSIVE OptsLoop(_, _, _)
\* The loop of update over zip(opts[0::2], opts[1::2]) from the i-th pair on.
OptsLoop(dic, opts, i) ==
    IF 2 * i > Len(opts) THEN St(dic, NoExc)
    ELSE LET key == opts[2 * i - 1]
             raw == opts[2 * i]
             ev == IF raw.k = "str" THEN literal_eval(raw.v) ELSE raw
             value == IF IsErr(ev) THEN raw ELSE ev
             r == SetPath(dic, Split(key.v), value)
         IN  IF IsErr(r) THEN St(dic, r) ELSE OptsLoop(r, opts, i + 1)

\* if learning_rate: ...
UpdateLearningRate(dic, learning_rate) ==
    IF ~Truthy(learning_rate) THEN St(dic, NoExc)
    ELSE IF HasKey(dic, "lr_scheduler")
    THEN IF IsDict(dic.v["lr_scheduler"])
         THEN St(DictSet(dic, "lr_scheduler",
                         DictSet(dic.v["lr_scheduler"], "learning_rate",
                                 learning_rate)), NoExc)
         ELSE St(dic, Err("TypeError"))
    ELSE IF ~HasKey(dic, "learning_rate") THEN St(dic, Err("KeyError"))
    ELSE IF IsDict(dic.v["learning_rate"])
    THEN St(DictSet(dic, "learning_rate",
                    DictSet(dic.v["learning_rate"], "value", learning_rate)),
            NoExc)
    ELSE St(dic, Err("TypeError"))

\* Config.update; opts is None or a list.
update(dic, learning_rate, batch_size, iters, opts) ==
    LET s1 == UpdateLearningRate(dic, learning_rate)
        d2 == IF Truthy(batch_size)
              THEN DictSet(s1.dic, "batch_size", batch_size) ELSE s1.dic
        d3 == IF Truthy(iters) THEN DictSet(d2, "iters", iters) ELSE d2
    IN  IF IsErr(s1.exc) THEN s1
        ELSE IF IsNone(opts) THEN St(d3, NoExc)
        ELSE IF Len(opts.v) % 2 # 0 \/ Len(opts.v) = 0
        THEN St(d3, Err("ValueError"))
        ELSE OptsLoop(d3, opts.v, 1)

\* Config.train_dataset_config / Config.val_dataset_config:
\* self.dic.get(key, {}).copy()
DatasetConfig(dic, key) ==
    LET x == DictGet(dic, key, EmptyDict)
    IN  IF x.k \in {"dict", "list"} THEN x ELSE Err("AttributeError")
train_dataset_config(dic) == DatasetConfig(dic, "train_dataset")
val_dataset_config(dic) == DatasetConfig(dic, "val_dataset")

\* path.endswith(suffix), on the file names of the model
EndsWith(name, suffix) ==
    CASE suffix = "yml" -> name \in {"seg.yml", "base.yml", "root.yml",
                                      "child.yml", "val.yml", "bare.yml",
                                      "nodata.yml", "orphan.yml"}
      [] suffix = "yaml" -> name \in {"legacy.yaml"}
      [] OTHER -> FALSE

NewConfig(dic) ==
    [dic |-> dic, _model |-> None, _losses |-> None, _distill_losses |-> Unset]

\* A mutant: construction without the checks of lines 96-102.
ConfigInitUnchecked(fs, path, learning_rate, batch_size, iters, opts) ==
    IF path = EmptyPath THEN St(NoConfig, Err("ValueError"))
    ELSE IF path \notin DOMAIN fs THEN St(NoConfig, Err("FileNotFoundError"))
    ELSE IF ~(EndsWith(path.name, "yml") \/ EndsWith(path.name, "yaml"))
    THEN St(NoConfig, Err("RuntimeError"))
    ELSE LET dic == _parse_from_yaml(fs, path)
             u == update(dic, learning_rate, batch_size, iters, opts)
         IN  IF IsErr(dic) THEN St(NoConfig, dic)
             ELSE IF IsErr(u.exc) THEN St(NoConfig, u.exc)
             ELSE St(NewConfig(u.dic), NoExc)

\* Config.__init__: the object construction returns (NoConfig when it raises)
\* and the exception.
ConfigInit(fs, path, learning_rate, batch_size, iters, opts) ==
    IF path = EmptyPath THEN St(NoConfig, Err("ValueError"))
    ELSE IF path \notin DOMAIN fs THEN St(NoConfig, Err("FileNotFoundError"))
    ELSE IF ~(EndsWith(path.name, "yml") \/ EndsWith(path.name, "yaml"))
    THEN St(NoConfig, Err("RuntimeError"))
    ELSE LET dic == _parse_from_yaml(fs, path)
             u == update(dic, learning_rate, batch_size, iters, opts)
             model_cfg == DictGet(u.dic, "model", None)
             t == train_dataset_config(u.dic)
             v == val_dataset_config(u.dic)
         IN  IF IsErr(dic) THEN St(NoConfig, dic)
             ELSE IF IsErr(u.exc) THEN St(NoConfig, u.exc)
             ELSE IF IsNone(model_cfg) THEN St(NoConfig, Err("RuntimeError"))
             ELSE IF IsErr(t) THEN St(NoConfig, t)
             ELSE IF Truthy(t) THEN St(NewConfig(u.dic), NoExc)
             ELSE IF IsErr(v) THEN St(NoConfig, v)
             ELSE IF Truthy(v) THEN St(NewConfig(u.dic), NoExc)
             ELSE St(NoConfig, Err("ValueError"))

----------------------------------------------------------------------------
(* Config.check_sync_info *)

\* Config.train_dataset_class / Config.val_dataset_class on the dataset
\* config dataset_config: the class, or KeyError / RuntimeError.
DatasetClass(reg, dataset_config) ==
    IF ~HasKey(dataset_config, "type") THEN Err("KeyError")
    ELSE _load_component(reg, dataset_config.v["type"].v)

\* The num_classes a dataset config adds to num_classes_set (lines 486-495):
\* [val |-> the set of values added, exc |-> what the class lookup raised].
Found(val, e) == [val |-> val, exc |-> e]
DatasetNumClasses(reg, dataset_config) ==
    IF ~Truthy(dataset_config) THEN Found({}, NoExc)
    ELSE LET cls == DatasetClass(reg, dataset_config)
         IN  IF IsErr(cls) THEN Found({}, cls)
             ELSE IF HasAttr(cls, "NUM_CLASSES")
             THEN Found({cls.attrs["NUM_CLASSES"]}, NoExc)
             ELSE IF HasKey(dataset_config, "num_classes")
             THEN Found({dataset_config.v["num_classes"]}, NoExc)
             ELSE Found({}, NoExc)

\* self.dic[key]['num_classes'] = num_classes for a dataset whose class has
\* no NUM_CLASSES (lines 508-513)
SyncDatasetNumClasses(reg, dic, key, num_classes) ==
    LET dataset_config == DatasetConfig(dic, key)
    IN  IF Truthy(dataset_config)
           /\ ~HasAttr(DatasetClass(reg, dataset_config), "NUM_CLASSES")
        THEN DictSet(dic, key, DictSet(dic.v[key], "num_classes", num_classes))
        ELSE dic

_check_sync_num_classes(reg, dic) ==
    LET model_cfg == dic.v["model"]
        m == IF ~IsNone(DictGet(model_cfg, "num_classes", None))
             THEN {model_cfg.v["num_classes"]} ELSE {}
        t == DatasetNumClasses(reg, train_dataset_config(dic))
        v == DatasetNumClasses(reg, val_dataset_config(dic))
        num_classes_set == m \cup t.val \cup v.val
        num_classes == CHOOSE x \in num_classes_set : TRUE
        d1 == DictSet(dic, "model",
                      DictSet(model_cfg, "num_classes", num_classes))
        d2 == SyncDatasetNumClasses(reg, d1, "train_dataset", num_classes)
        d3 == SyncDatasetNumClasses(reg, d2, "val_dataset", num_classes)
    IN  IF ~IsDict(model_cfg) THEN St(dic, Err("AttributeError"))
        ELSE IF IsErr(t.exc) THEN St(dic, t.exc)
        ELSE IF IsErr(v.exc) THEN St(dic, v.exc)
        ELSE IF Cardinality(num_classes_set) = 0 THEN St(dic, Err("ValueError"))
        ELSE IF Cardinality(num_classes_set) > 1 THEN St(dic, Err("ValueError"))
        ELSE St(d3, NoExc)

\* The img_channels a dataset config adds to img_channels_set (lines 527-532)
DatasetImgChannels(dataset_config) ==
    IF Truthy(dataset_config) /\ HasKey(dataset_config, "img_channels")
    THEN {dataset_config.v["img_channels"]} ELSE {}

\* A mutant: the model's own in_channels is read although it has a backbone.
ModelImgChannelsFlat(model_cfg) ==
    IF ~IsNone(DictGet(model_cfg, "in_channels", None))
    THEN {model_cfg.v["in_channels"]}
    ELSE {}

\* The model's channel setting added to img_channels_set (lines 521-526)
ModelImgChannels(model_cfg) ==
    IF HasKey(model_cfg, "backbone")
    THEN LET x == DictGet(model_cfg.v["backbone"], "in_channels", None)
         IN  IF ~IsNone(x) THEN {x} ELSE {}
    ELSE IF ~IsNone(DictGet(model_cfg, "in_channels", None))
    THEN {model_cfg.v["in_channels"]}
    ELSE {}

\* self.dic[key]['img_channels'] = img_channels for a dataset of type
\* "Dataset" (lines 545-550): the dict, or KeyError when it has no type
SyncDatasetImgChannels(dic, key, img_channels) ==
    LET dataset_config == DatasetConfig(dic, key)
    IN  IF ~Truthy(dataset_config) THEN dic
        ELSE IF ~HasKey(dataset_config, "type") THEN Err("KeyError")
        ELSE IF dataset_config.v["type"] = Str("Dataset")
        THEN DictSet(dic, key, DictSet(dic.v[key], "img_channels", img_channels))
        ELSE dic

\* The default of line 539
DefaultImgChannels == 3

_check_sync_img_channels(dic) ==
    LET model_cfg == dic.v["model"]
        img_channels_set ==
            ModelImgChannels(model_cfg)
            \cup DatasetImgChannels(train_dataset_config(dic))
            \cup DatasetImgChannels(val_dataset_config(dic))
        img_channels == IF Cardinality(img_channels_set) = 0
                        THEN IntV(DefaultImgChannels)
                        ELSE CHOOSE x \in img_channels_set : TRUE
        d1 == IF HasKey(model_cfg, "backbone")
              THEN DictSet(dic, "model",
                       DictSet(model_cfg, "backbone",
                           DictSet(model_cfg.v["backbone"], "in_channels",
                                   img_channels)))
              ELSE DictSet(dic, "model",
                       DictSet(model_cfg, "in_channels", img_channels))
        d2 == SyncDatasetImgChannels(d1, "train_dataset", img_channels)
        d3 == SyncDatasetImgChannels(d2, "val_dataset", img_channels)
    IN  IF Cardinality(img_channels_set) > 1 THEN St(dic, Err("ValueError"))
        ELSE IF IsErr(d2) THEN St(d1, d2)
        ELSE IF IsErr(d3) THEN St(d2, d3)
        ELSE St(d3, NoExc)

\* Config.check_sync_info: the second check runs on what the first left.
check_sync_info(reg, dic) ==
    LET s1 == _check_sync_num_classes(reg, dic)
    IN  IF IsErr(s1.exc) THEN s1 ELSE _check_sync_img_channels(s1.dic)

----------------------------------------------------------------------------
(* The properties of Config that build objects *)

\* Config.train_dataset / Config.val_dataset on the key of the dataset config
Dataset(reg, dic, key) ==
    LET dataset_config == DatasetConfig(dic, key)
    IN  IF IsErr(dataset_config) THEN Res(dataset_config, <<>>)
        ELSE IF ~Truthy(dataset_config) THEN Res(None, <<>>)
        ELSE _load_object(reg, dataset_config)
train_dataset(reg, dic) == Dataset(reg, dic, "train_dataset")
val_dataset(reg, dic) == Dataset(reg, dic, "val_dataset")

\* The ignore_index a dataset is built with when its config names none
DatasetDefaultIgnoreIndex == 255

\* dataset.ignore_index: the argument the dataset was built with
IgnoreIndexOf(dataset) ==
    IF dataset.k # "obj" THEN Err("AttributeError")
    ELSE IF "ignore_index" \in DOMAIN dataset.params
    THEN dataset.params["ignore_index"]
    ELSE IntV(DatasetDefaultIgnoreIndex)

\* self.train_dataset.ignore_index: [val, calls]
TrainIgnoreIndex(reg, dic) ==
    LET d == train_dataset(reg, dic)
    IN  IF IsErr(d.val) THEN d ELSE Res(IgnoreIndexOf(d.val), d.calls)

\* What _prepare_loss leaves: the value (or exception), the constructor
\* calls, and the config dict (its loss items are written in place).
Built(val, cs, dic) == [val |-> val, calls |-> cs, dic |-> dic]

\* The ignore_index steps of _prepare_loss on one item (lines 352-359), t
\* being what a read of self.train_dataset.ignore_index gives: the item as
\* written, or the exception. An item that sets ignore_index reads the
\* dataset for the assertion and once more for the assignment (or for the
\* assertion's message).
PrepareItemRead(item, t) ==
    IF IsErr(t.val) THEN t
    ELSE IF ~HasKey(item, "ignore_index")
    THEN Res(DictSet(item, "ignore_index", t.val), t.calls)
    ELSE IF item.v["ignore_index"] # t.val
    THEN Res(Err("AssertionError"), t.calls \o t.calls)
    ELSE Res(DictSet(item, "ignore_index", t.val), t.calls \o t.calls)

PrepareItem(reg, dic, item) ==
    IF ~HasKey(item, "type") THEN Res(Err("KeyError"), <<>>)
    ELSE IF item.v["type"] = Str("MixedLoss") THEN Res(item, <<>>)
    ELSE PrepareItemRead(item, TrainIgnoreIndex(reg, dic))

RECURSIVE LossTypesLoop(_, _, _, _, _, _, _, _)

\* The j-th item of types is written back as p.val and o is built from it
\* (line 360); the loop goes on with the next item.
LossTypesAppend(reg, dic, loss_name, n, repeated, i, objs, cs, o) ==
    IF IsErr(o.val) THEN Built(o.val, cs \o o.calls, dic)
    ELSE LossTypesLoop(reg, dic, loss_name, n, repeated, i + 1,
                       Append(objs, o.val), cs \o o.calls)

\* One pass of the loop, p being the item prepared (or the exception)
LossTypesItem(reg, dic, loss_name, n, repeated, i, j, objs, cs, p) ==
    IF IsErr(p.val) THEN Built(p.val, cs \o p.calls, dic)
    ELSE LossTypesAppend(reg,
             DictSet(dic, loss_name,
                 DictSet(dic.v[loss_name], "types",
                     List([dic.v[loss_name].v["types"].v EXCEPT ![j] = p.val]))),
             loss_name, n, repeated, i, objs, cs \o p.calls,
             _load_object(reg, p.val))

\* The loop of _prepare_loss over args['types'] from the i-th of n items on.
\* The items are the dicts of self.dic[loss_name]['types']: the i-th one, or
\* the only one when the list was repeated (types * len_coef).
LossTypesLoop(reg, dic, loss_name, n, repeated, i, objs, cs) ==
    IF i > n THEN Built(List(objs), cs, dic)
    ELSE LossTypesItem(reg, dic, loss_name, n, repeated, i,
                       IF repeated THEN 1 ELSE i, objs, cs,
                       PrepareItem(reg, dic,
                           dic.v[loss_name].v["types"].v[IF repeated THEN 1 ELSE i]))

\* The end of _prepare_loss (lines 347-367), r being what the loop over
\* types left
PrepareLossEnd(args, r) ==
    IF IsErr(r.val) THEN r
    ELSE IF PyLen(args.v["coef"]) # PyLen(r.val)
    THEN Built(Err("RuntimeError"), r.calls, r.dic)
    ELSE Built(DictSet(args, "types", r.val), r.calls, r.dic)

\* A mutant: the lengths of types and coef are not compared before the loop.
PrepareLossUnchecked(reg, dic, loss_name) ==
    LET args == DictGet(dic, loss_name, EmptyDict)
    IN  IF ~(HasKey(args, "types") /\ HasKey(args, "coef"))
        THEN Built(Err("ValueError"), <<>>, dic)
        ELSE LET len_types == PyLen(args.v["types"])
                 len_coef == PyLen(args.v["coef"])
                 repeated == len_types # len_coef /\ len_types = 1
             IN  PrepareLossEnd(args,
                     LossTypesLoop(reg, dic, loss_name,
                                   IF repeated THEN len_coef ELSE len_types,
                                   repeated, 1, <<>>, <<>>))

_prepare_loss(reg, dic, loss_name) ==
    LET args == DictGet(dic, loss_name, EmptyDict)
    IN  IF ~(HasKey(args, "types") /\ HasKey(args, "coef"))
        THEN Built(Err("ValueError"), <<>>, dic)
        ELSE LET len_types == PyLen(args.v["types"])
                 len_coef == PyLen(args.v["coef"])
                 repeated == len_types # len_coef /\ len_types = 1
             IN  IF len_types # len_coef /\ len_types # 1
                 THEN Built(Err("ValueError"), <<>>, dic)
                 ELSE PrepareLossEnd(args,
                          LossTypesLoop(reg, dic, loss_name,
                                        IF repeated THEN len_coef ELSE len_types,
                                        repeated, 1, <<>>, <<>>))

\* What a property read leaves: the Config object, the value returned, the
\* exception raised and the constructor calls made.
Read(c, r, e, cs) == [cfg |-> c, ret |-> r, exc |-> e, calls |-> cs]

\* What a read of loss or distill_loss that finds nothing cached leaves, r
\* being what _prepare_loss gave: the losses are kept in the named attribute.
LossRead(c, attr, r) ==
    IF IsErr(r.val)
    THEN Read([c EXCEPT !.dic = r.dic], None, r.val, r.calls)
    ELSE Read([c EXCEPT !.dic = r.dic, ![attr] = r.val], r.val, NoExc, r.calls)

\* Config.loss
loss(reg, c) ==
    IF IsNone(c._losses)
    THEN LossRead(c, "_losses", _prepare_loss(reg, c.dic, "loss"))
    ELSE Read(c, c._losses, NoExc, <<>>)

\* Config.distill_loss
distill_loss(reg, c) ==
    IF c._distill_losses = Unset
    THEN LossRead(c, "_distill_losses",
                  _prepare_loss(reg, c.dic, "distill_loss"))
    ELSE Read(c, c._distill_losses, NoExc, <<>>)

\* Config.model
model(reg, c) ==
    LET model_cfg == DictGet(c.dic, "model", None)
        r == _load_object(reg, model_cfg)
    IN  IF ~IsDict(model_cfg) THEN Read(c, None, Err("AttributeError"), <<>>)
        ELSE IF Truthy(c._model) THEN Read(c, c._model, NoExc, <<>>)
        ELSE IF IsErr(r.val) THEN Read(c, None, r.val, r.calls)
        ELSE Read([c EXCEPT !._model = r.val], r.val, NoExc, r.calls)

----------------------------------------------------------------------------
(* Config.lr_scheduler, Config.learning_rate and Config.optimizer *)

\* The classes of paddle.optimizer.lr and of paddle.optimizer the model knows
LrClasses == {"PolynomialDecay", "PiecewiseDecay", "StepDecay", "LinearWarmup"}
OptimizerClasses == {"Momentum", "Adam", "AdamW", "SGD"}
PaddleClass(module, name) == Class(name, [module |-> module])

\* d.setdefault(key, val)
SetDefault(d, key, val) == IF HasKey(d, key) THEN d ELSE DictSet(d, key, val)

\* Config.iters: [val |-> iters or the exception]
iters(dic) ==
    LET x == DictGet(dic, "iters", None)
    IN  IF ~Truthy(x) THEN Err("RuntimeError") ELSE x

\* Config.lr_scheduler: params is self.dic['lr_scheduler'] itself, so the
\* pops and setdefaults are written to the config.
lr_scheduler(dic) ==
    IF ~HasKey(dic, "lr_scheduler") THEN Built(Err("RuntimeError"), <<>>, dic)
    ELSE
    LET params == dic.v["lr_scheduler"]
        use_warmup == HasKey(params, "warmup_iters")
        warmup_iters == params.v["warmup_iters"]
        p1 == IF use_warmup THEN DictDel(params, "warmup_iters") ELSE params
        warmup_start_lr == p1.v["warmup_start_lr"]
        p2 == IF use_warmup THEN DictDel(p1, "warmup_start_lr") ELSE p1
        end_lr == p2.v["learning_rate"]
        lr_type == p2.v["type"]
        p3 == DictDel(p2, "type")
        its == iters(dic)
        decay_steps == IF use_warmup THEN its.v - warmup_iters.v ELSE its.v
        p4 == IF lr_type = Str("PolynomialDecay")
              THEN SetDefault(SetDefault(SetDefault(p3,
                       "decay_steps",
                       IntV(IF decay_steps > 1 THEN decay_steps ELSE 1)),
                       "end_lr", IntV(0)),
                       "power", Float("0.9"))
              ELSE p3
        lr_sche == New(PaddleClass("paddle.optimizer.lr", lr_type.v), p4.v)
        warm == New(PaddleClass("paddle.optimizer.lr", "LinearWarmup"),
                    [learning_rate |-> lr_sche, warmup_steps |-> warmup_iters,
                     start_lr |-> warmup_start_lr, end_lr |-> end_lr])
        With(p) == DictSet(dic, "lr_scheduler", p)
    IN  IF use_warmup /\ ~HasKey(p1, "warmup_start_lr")
        THEN Built(Err("AssertionError"), <<>>, With(p1))
        ELSE IF use_warmup /\ ~HasKey(p2, "learning_rate")
        THEN Built(Err("KeyError"), <<>>, With(p2))
        ELSE IF ~HasKey(p2, "type") THEN Built(Err("KeyError"), <<>>, With(p2))
        ELSE IF lr_type = Str("PolynomialDecay") /\ IsErr(its)
        THEN Built(its, <<>>, With(p3))
        ELSE IF lr_type.v \notin LrClasses
        THEN Built(Err("AttributeError"), <<>>, With(p4))
        ELSE IF use_warmup
        THEN Built(warm, <<lr_sche, warm>>, With(p4))
        ELSE Built(lr_sche, <<lr_sche>>, With(p4))

\* Config.decay_args
decay_args(dic) ==
    LET args == DictGet(DictGet(dic, "learning_rate", EmptyDict), "decay",
                    Dict([type |-> Str("poly"), power |-> Float("0.9")]))
        its == iters(dic)
    IN  IF ~HasKey(args, "type") THEN Err("KeyError")
        ELSE IF args.v["type"] = Str("poly")
        THEN IF HasKey(args, "decay_steps")
             THEN SetDefault(args, "end_lr", IntV(0))
             ELSE IF IsErr(its) THEN its
             ELSE SetDefault(DictSet(args, "decay_steps", its),
                             "end_lr", IntV(0))
        ELSE args

\* Config.learning_rate: [val, calls]
learning_rate(dic) ==
    LET lr == DictGet(dic, "learning_rate", EmptyDict)
        value == DictGet(lr, "value", None)
        args == decay_args(dic)
        decay_type == args.v["type"]
        rest == DictDel(args, "type").v
        Make(name, first) ==
            LET o == New(PaddleClass("paddle.optimizer.lr", name),
                         [x \in DOMAIN rest \cup {first} |->
                             IF x = first THEN value ELSE rest[x]])
            IN  Res(o, <<o>>)
    IN  IF lr.k = "float" THEN Res(lr, <<>>)
        ELSE IF ~IsDict(lr) THEN Res(Err("AttributeError"), <<>>)
        ELSE IF ~Truthy(value) THEN Res(Err("RuntimeError"), <<>>)
        ELSE IF IsErr(args) THEN Res(args, <<>>)
        ELSE IF decay_type = Str("poly")
        THEN Make("PolynomialDecay", "learning_rate")
        ELSE IF decay_type = Str("piecewise")
        THEN Make("PiecewiseDecay", "values")
        ELSE IF decay_type = Str("stepdecay")
        THEN Make("StepDecay", "learning_rate")
        ELSE Res(Err("RuntimeError"), <<>>)

\* Config.optimizer_args
optimizer_args(dic) ==
    LET args == DictGet(dic, "optimizer", EmptyDict)
    IN  IF ~HasKey(args, "type") THEN Err("KeyError")
        ELSE IF args.v["type"] = Str("sgd")
        THEN SetDefault(args, "momentum", Float("0.9"))
        ELSE args

\* hasattr(self.model, 'backbone'): a model built with a backbone keeps it
HasBackbone(m) == "backbone" \in DOMAIN m.params

\* The end of Config.optimizer (lines 259-289): lrv is the learning rate
\* built, args the optimizer arguments and m what reading self.model gave.
OptimizerBuild(lrv, args, m) ==
    LET optimizer_type == args.v["type"].v
        a1 == DictDel(args, "type")
        split == HasKey(a1, "backbone_lr_mult") /\ HasBackbone(m.ret)
        a2 == IF split THEN DictDel(a1, "backbone_lr_mult") ELSE a1
        params == IF split THEN Str("backbone_params, other_params")
                  ELSE Str("model.parameters()")
        name == CASE optimizer_type = "sgd" -> "Momentum"
                  [] optimizer_type = "adam" -> "Adam"
                  [] OTHER -> optimizer_type
        o == New(PaddleClass("paddle.optimizer", name),
                 [x \in DOMAIN a2.v \cup {"learning_rate", "parameters"} |->
                     CASE x = "learning_rate" -> lrv.val
                       [] x = "parameters" -> params
                       [] OTHER -> a2.v[x]])
        cs == lrv.calls \o m.calls
    IN  IF IsErr(m.exc) THEN Read(m.cfg, None, m.exc, cs)
        ELSE IF name \notin OptimizerClasses
        THEN Read(m.cfg, None, Err("RuntimeError"), cs)
        ELSE Read(m.cfg, o, NoExc, Append(cs, o))

\* Config.optimizer from line 258 on: c1 is the Config after the learning
\* rate lrv was built.
OptimizerArgs(reg, c1, lrv, args) ==
    IF IsErr(args) THEN Read(c1, None, args, lrv.calls)
    ELSE OptimizerBuild(lrv, args, model(reg, c1))

\* Config.optimizer from line 258 on, lrv being what lines 254-257 gave
OptimizerLr(reg, c, lrv) ==
    IF IsErr(lrv.val)
    THEN Read([c EXCEPT !.dic = lrv.dic], None, lrv.val, lrv.calls)
    ELSE OptimizerArgs(reg, [c EXCEPT !.dic = lrv.dic], lrv,
                       optimizer_args(lrv.dic))

\* self.learning_rate, which leaves the config as it is
LearningRateBuilt(dic, l) == Built(l.val, l.calls, dic)

\* Config.optimizer
optimizer(reg, c) ==
    OptimizerLr(reg, c,
                IF HasKey(c.dic, "lr_scheduler") THEN lr_scheduler(c.dic)
                ELSE LearningRateBuilt(c.dic, learning_rate(c.dic)))

----------------------------------------------------------------------------
(* The operations on a Config object *)

\* An operation and its arguments
Op(name, args) == [op |-> name, args |-> args]

NoHead == None

\* cfg = Config(path, learning_rate, batch_size, iters, opts)
Construct(path, lr, bs, its, opts) ==
    LET r == ConfigInit(files, path, lr, bs, its, opts)
    IN  /\ lastOp.op = "none"      \* the first operation of a run
        /\ cfg' = r.dic
        /\ exc' = r.exc
        /\ ret' = None
        /\ calls' = <<>>
        /\ lastOp' = Op("__init__", <<path, lr, bs, its, opts>>)
        /\ UNCHANGED <<files, registry, head, out>>

\* cfg.update(learning_rate, batch_size, iters, opts)
Update(lr, bs, its, opts) ==
    /\ cfg # NoConfig
    /\ LET r == update(cfg.dic, lr, bs, its, opts)
       IN  /\ cfg' = [cfg EXCEPT !.dic = r.dic]
           /\ exc' = r.exc
    /\ ret' = None
    /\ calls' = <<>>
    /\ lastOp' = Op("update", <<lr, bs, its, opts>>)
    /\ UNCHANGED <<files, registry, head, out>>

\* A mutant: check_sync_info builds the training dataset to look at it.
CheckSyncInfoEager ==
    /\ cfg # NoConfig
    /\ LET r == check_sync_info(registry, cfg.dic)
       IN  /\ cfg' = [cfg EXCEPT !.dic = r.dic]
           /\ exc' = r.exc
    /\ ret' = None
    /\ calls' = train_dataset(registry, cfg.dic).calls
    /\ lastOp' = Op("check_sync_info", <<>>)
    /\ UNCHANGED <<files, registry, head, out>>

\* cfg.check_sync_info()
CheckSyncInfo ==
    /\ cfg # NoConfig
    /\ LET r == check_sync_info(registry, cfg.dic)
       IN  /\ cfg' = [cfg EXCEPT !.dic = r.dic]
           /\ exc' = r.exc
    /\ ret' = None
    /\ calls' = <<>>
    /\ lastOp' = Op("check_sync_info", <<>>)
    /\ UNCHANGED <<files, registry, head, out>>

\* A property read whose outcome is r
ReadStep(name, r) ==
    /\ cfg' = r.cfg
    /\ ret' = r.ret
    /\ exc' = r.exc
    /\ calls' = r.calls
    /\ lastOp' = Op(name, <<>>)
    /\ UNCHANGED <<files, registry, head, out>>

\* A [val, calls] outcome as the outcome of a read that leaves cfg as c
AsRead(c, r) ==
    IF IsErr(r.val) THEN Read(c, None, r.val, r.calls)
    ELSE Read(c, r.val, NoExc, r.calls)

\* cfg.train_dataset
ReadTrainDataset ==
    /\ cfg # NoConfig
    /\ ReadStep("train_dataset", AsRead(cfg, train_dataset(registry, cfg.dic)))

\* cfg.val_dataset
ReadValDataset ==
    /\ cfg # NoConfig
    /\ ReadStep("val_dataset", AsRead(cfg, val_dataset(registry, cfg.dic)))

\* cfg.model
ReadModel ==
    /\ cfg # NoConfig
    /\ ReadStep("model", model(registry, cfg))

\* cfg.loss
ReadLoss ==
    /\ cfg # NoConfig
    /\ ReadStep("loss", loss(registry, cfg))

\* cfg.distill_loss
ReadDistillLoss ==
    /\ cfg # NoConfig
    /\ ReadStep("distill_loss", distill_loss(registry, cfg))

\* cfg.lr_scheduler
ReadLrScheduler ==
    /\ cfg # NoConfig
    /\ LET r == lr_scheduler(cfg.dic)
       IN  ReadStep("lr_scheduler", AsRead([cfg EXCEPT !.dic = r.dic], r))

\* cfg.learning_rate
ReadLearningRate ==
    /\ cfg # NoConfig
    /\ ReadStep("learning_rate", AsRead(cfg, learning_rate(cfg.dic)))

\* cfg.optimizer
ReadOptimizer ==
    /\ cfg # NoConfig
    /\ ReadStep("optimizer", optimizer(registry, cfg))

----------------------------------------------------------------------------
(* The components PaddleSeg registers, and the configuration files *)

NoAttrs == [z \in {} |-> None]

\* manager.MODELS .. manager.LOSSES after the package is imported.
\* OpticDiscSeg carries the class attribute NUM_CLASSES = 2.
PaddleSegRegistry ==
    [MODELS |-> [UNet |-> Class("UNet", NoAttrs)],
     BACKBONES |-> [ResNet |-> Class("ResNet", NoAttrs)],
     DATASETS |-> [Dataset |-> Class("Dataset", NoAttrs),
                   OpticDiscSeg |-> Class("OpticDiscSeg",
                                          [NUM_CLASSES |-> IntV(2)])],
     TRANSFORMS |-> [Normalize |-> Class("Normalize", NoAttrs)],
     LOSSES |-> [CrossEntropyLoss |-> Class("CrossEntropyLoss", NoAttrs),
                 DiceLoss |-> Class("DiceLoss", NoAttrs),
                 MixedLoss |-> Class("MixedLoss", NoAttrs)]]

\* S, and each dict of S with key set to a value of vals
WithOpt(S, key, vals) == S \cup {DictSet(d, key, x) : d \in S, x \in vals}
\* The lists over S of length at most n
ListsUpTo(S, n) == UNION {{List(q) : q \in [1..m -> S]} : m \in 0..n}

Cfg(name) == Path("configs", name)

BaseYml ==
    Dict([batch_size |-> IntV(2),
          iters |-> IntV(100),
          train_dataset |-> Dict([type |-> Str("Dataset"),
                                  num_classes |-> IntV(2),
                                  transforms |->
                                      List(<<Dict([type |-> Str("Normalize")])>>),
                                  mode |-> Str("train")]),
          val_dataset |-> Dict([type |-> Str("Dataset"),
                                num_classes |-> IntV(2),
                                mode |-> Str("val")]),
          optimizer |-> Dict([type |-> Str("sgd")]),
          lr_scheduler |-> Dict([type |-> Str("PolynomialDecay"),
                                 learning_rate |-> Float("0.01"),
                                 warmup_iters |-> IntV(10),
                                 warmup_start_lr |-> Float("0.001")]),
          loss |-> Dict([types |-> List(<<Dict([type |-> Str("CrossEntropyLoss")])>>),
                         coef |-> List(<<IntV(1), IntV(1)>>)])])

SegYml ==
    Dict([_base_ |-> Str("base.yml"),
          model |-> Dict([type |-> Str("UNet"), num_classes |-> IntV(2)])])

ValYml ==
    Dict([_base_ |-> Str("base.yml"),
          model |-> Dict([type |-> Str("UNet")]),
          train_dataset |-> Dict([_inherited_ |-> Bool(FALSE)])])

NoDataYml == Dict([model |-> Dict([type |-> Str("UNet")])])

OrphanYml ==
    Dict([_base_ |-> Str("missing.yml"),
          model |-> Dict([type |-> Str("UNet")])])

LegacyYaml ==
    Dict([iters |-> IntV(100),
          model |-> Dict([type |-> Str("UNet"),
                          backbone |-> Dict([type |-> Str("ResNet")])]),
          train_dataset |-> Dict([type |-> Str("OpticDiscSeg")]),
          optimizer |-> Dict([type |-> Str("adam"),
                              backbone_lr_mult |-> Float("0.1")]),
          learning_rate |-> Dict([value |-> Float("0.01")]),
          loss |-> Dict([types |-> List(<<Dict([type |-> Str("CrossEntropyLoss")])>>),
                         coef |-> List(<<IntV(1)>>)])])

ConfigFiles ==
    (Cfg("base.yml") :> BaseYml) @@ (Cfg("seg.yml") :> SegYml)
    @@ (Cfg("val.yml") :> ValYml) @@ (Cfg("nodata.yml") :> NoDataYml)
    @@ (Cfg("orphan.yml") :> OrphanYml) @@ (Cfg("legacy.yaml") :> LegacyYaml)
    @@ (Cfg("notes.txt") :> None)

ConfigPaths == DOMAIN ConfigFiles \cup {EmptyPath, Cfg("none.yml")}

\* The overrides given to Config(...) and to update(...)
LrArgs == {None, Float("0.1")}
BatchArgs == {None, IntV(8)}
OptsArgs ==
    {None, List(<<>>),
     List(<<Str("model.num_classes"), Str("3")>>),
     List(<<Str("model"), Str("None")>>),
     List(<<Str("train_dataset.type"), Str("Nope")>>)}

Idle ==
    /\ cfg = NoConfig
    /\ ret = None
    /\ exc = NoExc
    /\ lastOp = Op("none", <<>>)
    /\ calls = <<>>
    /\ head = NoHead
    /\ out = None

Init ==
    /\ files = ConfigFiles
    /\ registry = PaddleSegRegistry
    /\ Idle

Next ==
    \/ \E path \in ConfigPaths, lr \in LrArgs, bs \in BatchArgs,
          opts \in OptsArgs : Construct(path, lr, bs, None, opts)
    \/ \E lr \in LrArgs, opts \in OptsArgs : Update(lr, None, None, opts)
    \/ CheckSyncInfo
    \/ ReadTrainDataset
    \/ ReadValDataset
    \/ ReadModel
    \/ ReadLoss
    \/ ReadDistillLoss
    \/ ReadLrScheduler
    \/ ReadLearningRate
    \/ ReadOptimizer

Spec == Init /\ [][Next]_vars

----------------------------------------------------------------------------
(* Lazy instantiation and the validation of construction *)

PropertyReads ==
    {"train_dataset", "val_dataset", "model", "loss", "distill_loss",
     "optimizer", "lr_scheduler", "learning_rate"}

Overridden(args) ==
    update(_parse_from_yaml(files, args[1]), args[2], args[3], args[4], args[5])

HasModel(dic) == ~IsNone(DictGet(dic, "model", None))
HasDataset(dic) ==
    \/ Truthy(DictGet(dic, "train_dataset", EmptyDict))
    \/ Truthy(DictGet(dic, "val_dataset", EmptyDict))

\* C3: Config(path, ...) raises and yields no object for an empty path
\* (ValueError), a missing file (FileNotFoundError), a file that is not
\* yaml/yml (RuntimeError), a config without model entry after inheritance
\* and overrides (RuntimeError) and a config without a non-empty dataset
\* (ValueError); every object it returns has a model entry and a non-empty
\* dataset config.
C3_ConstructionValidated ==
    lastOp.op = "__init__" =>
        LET path == lastOp.args[1]
            yaml == EndsWith(path.name, "yml") \/ EndsWith(path.name, "yaml")
        IN  /\ (cfg = NoConfig) <=> IsErr(exc)
            /\ path = EmptyPath => exc = Err("ValueError")
            /\ (path # EmptyPath /\ path \notin DOMAIN files) =>
                   exc = Err("FileNotFoundError")
            /\ (path \in DOMAIN files /\ ~yaml) => exc = Err("RuntimeError")
            /\ (path \in DOMAIN files /\ yaml
                /\ ~IsErr(_parse_from_yaml(files, path))
                /\ ~IsErr(Overridden(lastOp.args).exc)) =>
                   LET dic == Overridden(lastOp.args).dic
                   IN  /\ ~HasModel(dic) => exc = Err("RuntimeError")
                       /\ (HasModel(dic) /\ ~HasDataset(dic)) =>
                              exc = Err("ValueError")
                       /\ (HasModel(dic) /\ HasDataset(dic)) =>
                              (exc = NoExc /\ cfg.dic = dic)
            /\ cfg # NoConfig =>
                   (HasModel(cfg.dic) /\ HasDataset(cfg.dic))

\* A construction refused for its datasets: the file has a model but, after
\* inheritance, neither dataset.
C3_Witness ==
    /\ lastOp.op = "__init__"
    /\ lastOp.args[1] = Cfg("nodata.yml")
    /\ IsNone(lastOp.args[5])
    /\ cfg = NoConfig
    /\ exc = Err("ValueError")

----------------------------------------------------------------------------
(* Inheritance: _parse_from_yaml over small trees of configuration files *)

\* The bound of the values a leaf of a generated config takes
MaxVal == 2
LeafValues == {IntV(n) : n \in 1..MaxVal}

\* _parse_from_yaml(path) called on its own
ParseFromYaml(path) ==
    LET r == _parse_from_yaml(files, path)
    IN  /\ lastOp.op = "none"
        /\ ret' = IF IsErr(r) THEN None ELSE r
        /\ exc' = IF IsErr(r) THEN r ELSE NoExc
        /\ lastOp' = Op("_parse_from_yaml", <<path>>)
        /\ UNCHANGED <<files, registry, cfg, calls, head, out>>

\* The dicts a model entry takes in the base file: two settings
BaseInnerDicts ==
    WithOpt(WithOpt({EmptyDict}, "num_classes", LeafValues),
            "in_channels", LeafValues)
\* ... and in the child file: with or without the marker
ChildInnerDicts == WithOpt(BaseInnerDicts, "_inherited_", {Bool(FALSE)})
\* The dicts a file holds: iters, and a model entry that is a number or a dict
OuterDicts(inner) ==
    WithOpt(WithOpt({EmptyDict}, "iters", LeafValues),
            "model", {IntV(1)} \cup inner)
ChildDicts ==
    WithOpt(OuterDicts(ChildInnerDicts), "_inherited_", {Bool(FALSE)})
BaseDicts == WithOpt(OuterDicts(BaseInnerDicts), "_base_", {Str("root.yml")})

RootYml == Dict([iters |-> IntV(1), batch_size |-> IntV(1)])

\* child.yml names base.yml as its base; base.yml may name root.yml;
\* another directory holds a base.yml of its own.
YamlFiles(child, base) ==
    (Cfg("child.yml") :> DictSet(child, "_base_", Str("base.yml")))
    @@ (Cfg("base.yml") :> base)
    @@ (Cfg("root.yml") :> RootYml)
    @@ (Path("other", "base.yml") :> Dict([batch_size |-> IntV(1)]))

InitYaml ==
    /\ \E child \in ChildDicts : \E base \in BaseDicts :
           files = YamlFiles(child, base)
    /\ registry = PaddleSegRegistry
    /\ Idle

NextYaml ==
    \E path \in {Cfg("child.yml"), Cfg("base.yml"), Cfg("root.yml"),
                 Cfg("none.yml")} : ParseFromYaml(path)

SpecYaml == InitYaml /\ [][NextYaml]_vars

----------------------------------------------------------------------------
(* C2: hierarchical inheritance *)

RECURSIVE Merged(_, _)
\* The config the claim describes for a child over a base, key by key; the
\* merge of a dict into a value that is no dict has no result (AttributeError).
Merged(child, base) ==
    IF ~IsDict(base) THEN Err("AttributeError")
    ELSE IF HasKey(child, "_inherited_") /\ EqualsFalse(child.v["_inherited_"])
    THEN Dict([key \in DOMAIN child.v \ {"_inherited_"} |-> child.v[key]])
    ELSE LET At(key) ==
                 IF key \notin DOMAIN base.v THEN child.v[key]
                 ELSE IF key \notin DOMAIN child.v THEN base.v[key]
                 ELSE IF IsDict(child.v[key])
                 THEN Merged(child.v[key], base.v[key])
                 ELSE child.v[key]
             keys == DOMAIN child.v \cup DOMAIN base.v
         IN  IF \E key \in keys : IsErr(At(key)) THEN Err("AttributeError")
             ELSE Dict([key \in keys |-> At(key)])

RECURSIVE Inherited(_, _)
\* The config of a file: its own dict, or the config of its base updated by it
Inherited(fs, path) ==
    IF path \notin DOMAIN fs THEN Err("FileNotFoundError")
    ELSE IF ~HasKey(fs[path], "_base_") THEN fs[path]
    ELSE LET base == Inherited(fs, Path(path.dir, fs[path].v["_base_"].v))
             child == Dict([key \in DOMAIN fs[path].v \ {"_base_"} |->
                               fs[path].v[key]])
         IN  IF IsErr(base) THEN base ELSE Merged(child, base)

\* C2: parsing a file gives the config of its base updated by the file, key by
\* key as the claim states (the child's value, the recursive merge, or the
\* base's value; a child marked _inherited_ = False alone and unmarked), and
\* the result holds no _base_ key.
C2_Inheritance ==
    lastOp.op = "_parse_from_yaml" =>
        LET want == Inherited(files, lastOp.args[1])
        IN  IF IsErr(want) THEN exc = want /\ ret = None
            ELSE /\ exc = NoExc
                 /\ ret = want
                 /\ ~HasKey(ret, "_base_")

\* A child with a model dict is merged into a base with a model dict that
\* itself inherits from root.yml: the result holds the settings of all three.
C2_Witness ==
    /\ lastOp = Op("_parse_from_yaml", <<Cfg("child.yml")>>)
    /\ exc = NoExc
    /\ HasKey(files[Cfg("base.yml")], "_base_")
    /\ ~HasKey(files[Cfg("child.yml")], "_inherited_")
    /\ HasKey(files[Cfg("child.yml")], "model")
    /\ HasKey(files[Cfg("base.yml")], "model")
    /\ IsDict(files[Cfg("child.yml")].v["model"])
    /\ IsDict(files[Cfg("base.yml")].v["model"])
    /\ HasKey(files[Cfg("child.yml")].v["model"], "in_channels")
    /\ ~HasKey(files[Cfg("child.yml")].v["model"], "num_classes")
    /\ HasKey(files[Cfg("base.yml")].v["model"], "num_classes")
    /\ HasKey(ret.v["model"], "num_classes")
    /\ HasKey(ret.v["model"], "in_channels")
    /\ HasKey(ret, "batch_size")

----------------------------------------------------------------------------
(* C10: component lookup over registries that are filled step by step *)

\* The bound of the number of components registered in all
MaxComponents == 3

ComponentNames == {"UNet", "ResNet"}
ComponentClasses == {Class(n, NoAttrs) : n \in ComponentNames}

\* The number of components the registries hold
Registered(reg) ==
    Cardinality({p \in (DOMAIN reg) \X ComponentNames : p[2] \in DOMAIN reg[p[1]]})

\* manager.<com>.add_component: cls is registered in com under name
AddComponent(com, name, cls) ==
    /\ Registered([registry EXCEPT ![com] = (name :> cls) @@ @]) <= MaxComponents
    /\ registry' = [registry EXCEPT ![com] = (name :> cls) @@ @]
    /\ ret' = None
    /\ exc' = NoExc
    /\ lastOp' = Op("add_component", <<com, name>>)
    /\ UNCHANGED <<files, cfg, calls, head, out>>

\* self._load_component(com_name)
LoadComponent(com_name) ==
    LET r == _load_component(registry, com_name)
    IN  /\ ret' = IF IsErr(r) THEN None ELSE r
        /\ exc' = IF IsErr(r) THEN r ELSE NoExc
        /\ lastOp' = Op("_load_component", <<com_name>>)
        /\ UNCHANGED <<files, registry, cfg, calls, head, out>>

InitReg ==
    /\ files = ConfigFiles
    /\ registry = [com \in {com_list[i] : i \in DOMAIN com_list} |-> NoAttrs]
    /\ Idle

NextReg ==
    \/ \E i \in DOMAIN com_list, name \in ComponentNames,
          cls \in ComponentClasses : AddComponent(com_list[i], name, cls)
    \/ \E com_name \in ComponentNames : LoadComponent(com_name)

SpecReg == InitReg /\ [][NextReg]_vars

\* The places of the registries that hold name, in the order MODELS,
\* BACKBONES, DATASETS, TRANSFORMS, LOSSES
Holders(reg, name) ==
    {i \in 1..5 : name \in DOMAIN reg[<<"MODELS", "BACKBONES", "DATASETS",
                                        "TRANSFORMS", "LOSSES">>[i]]}

\* C10: _load_component(name) returns the class registered under name in the
\* first registry, in the order MODELS, BACKBONES, DATASETS, TRANSFORMS,
\* LOSSES, that holds name; it raises RuntimeError when none holds it; what
\* it returns is registered under name.
C10_ComponentLookup ==
    lastOp.op = "_load_component" =>
        LET name == lastOp.args[1]
            held == Holders(registry, name)
            first == CHOOSE i \in held : \A j \in held : i <= j
        IN  IF held = {} THEN exc = Err("RuntimeError") /\ ret = None
            ELSE /\ exc = NoExc
                 /\ ret = registry[<<"MODELS", "BACKBONES", "DATASETS",
                                     "TRANSFORMS", "LOSSES">>[first]][name]
                 /\ \E com \in DOMAIN registry :
                        name \in DOMAIN registry[com] /\ registry[com][name] = ret

\* A name held by two registries with different classes is looked up: the
\* class of the earlier registry is returned.
C10_Witness ==
    /\ lastOp.op = "_load_component"
    /\ exc = NoExc
    /\ \E i, j \in Holders(registry, lastOp.args[1]) :
           /\ i < j
           /\ registry[com_list[i]][lastOp.args[1]]
                  # registry[com_list[j]][lastOp.args[1]]
           /\ ret = registry[com_list[i]][lastOp.args[1]]

----------------------------------------------------------------------------
(* CenterNetHead *)

\* A tensor is known by the expression that computes it.
Tensor(e) == [k |-> "tensor", v |-> e]

\* The bounds of the loss weights and of the values the loss functions give
MaxWeight == 1
MaxLoss == 1
Weights == 0..MaxWeight
LossValues == {0, MaxLoss}

\* CenterNetHead.__init__: the attributes the constructor sets. The iou
\* branch is an attribute only when iou_weight > 0; the layer starts in
\* training mode.
CenterNetHeadInit(heatmap_weight, regress_ltrb, size_weight, size_loss, offset_weight, iou_weight) ==
    [regress_ltrb |-> regress_ltrb,
     weights |-> [heatmap |-> heatmap_weight, size |-> size_weight,
                  offset |-> offset_weight, iou |-> iou_weight],
     size_loss |-> size_loss,
     attrs |-> {"regress_ltrb", "weights", "heatmap", "size", "size_loss",
                "offset"}
               \cup (IF iou_weight > 0 THEN {"iou"} ELSE {}),
     training |-> TRUE]

\* What the loss functions give on the tensors of one call: CTFocalLoss on
\* the heatmap, l1_loss or GIoULoss (as size_loss selects) on the sizes,
\* l1_loss on the offsets, GIoULoss on the iou prediction.
LossOutputs ==
    [heatmap : LossValues, size : LossValues, offset : LossValues,
     iou : LossValues]

\* A mutant: the size loss is left out of det_loss.
get_loss_no_size(self, weights, v, iou) ==
    LET size_loss == v.size
        losses == [heatmap_loss |-> IntV(v.heatmap),
                   size_loss |-> IntV(size_loss),
                   offset_loss |-> IntV(v.offset)]
        det_loss == weights.heatmap * v.heatmap + weights.offset * v.offset
    IN  IF self.size_loss \notin {"L1", "giou"} THEN Err("UnboundLocalError")
        ELSE IF ~IsNone(iou)
        THEN Dict(("det_loss" :> IntV(det_loss + weights.iou * v.iou))
                  @@ ("iou_loss" :> IntV(v.iou)) @@ losses)
        ELSE Dict(("det_loss" :> IntV(det_loss)) @@ losses)

\* CenterNetHead.get_loss, v the values of the loss functions: the losses, or
\* UnboundLocalError when size_loss names neither branch (size_loss is then
\* read unassigned at line 281).
get_loss(self, weights, v, iou) ==
    LET size_loss == v.size
        losses == [heatmap_loss |-> IntV(v.heatmap),
                   size_loss |-> IntV(size_loss),
                   offset_loss |-> IntV(v.offset)]
        det_loss == weights.heatmap * v.heatmap + weights.size * size_loss
                    + weights.offset * v.offset
    IN  IF self.size_loss \notin {"L1", "giou"} THEN Err("UnboundLocalError")
        ELSE IF ~IsNone(iou)
        THEN Dict(("det_loss" :> IntV(det_loss + weights.iou * v.iou))
                  @@ ("iou_loss" :> IntV(v.iou)) @@ losses)
        ELSE Dict(("det_loss" :> IntV(det_loss)) @@ losses)

\* CenterNetHead.forward: the iou branch is evaluated when the object has an
\* attribute named iou_weight.
forward(self, v) ==
    LET heatmap == Tensor("heatmap(feat)")
        size == Tensor("size(feat)")
        offset == Tensor("offset(feat)")
        iou == IF "iou_weight" \in self.attrs THEN Tensor("iou(feat)") ELSE None
        head_outs == [heatmap |-> Tensor("sigmoid(heatmap(feat))"),
                      size |-> size, offset |-> offset]
    IN  IF self.training THEN get_loss(self, self.weights, v, iou)
        ELSE IF ~IsNone(iou) THEN Dict(("iou" :> iou) @@ head_outs)
        ELSE Dict(head_outs)

\* head = CenterNetHead(...)
HeadConstruct(heatmap_weight, regress_ltrb, size_weight, size_loss, offset_weight, iou_weight) ==
    /\ head = NoHead
    /\ head' = CenterNetHeadInit(heatmap_weight, regress_ltrb, size_weight,
                                 size_loss, offset_weight, iou_weight)
    /\ lastOp' = Op("CenterNetHead", <<>>)
    /\ exc' = NoExc
    /\ out' = None
    /\ UNCHANGED <<files, registry, cfg, ret, calls>>

\* head.train() and head.eval() of paddle.nn.Layer
HeadSetMode(training) ==
    /\ head # NoHead
    /\ head' = [head EXCEPT !.training = training]
    /\ lastOp' = Op(IF training THEN "train" ELSE "eval", <<>>)
    /\ exc' = NoExc
    /\ out' = None
    /\ UNCHANGED <<files, registry, cfg, ret, calls>>

\* head(feat, inputs)
HeadForward(v) ==
    /\ head # NoHead
    /\ LET r == forward(head, v)
       IN  /\ out' = IF IsErr(r) THEN None ELSE r
           /\ exc' = IF IsErr(r) THEN r ELSE NoExc
    /\ lastOp' = Op("forward", <<>>)
    /\ UNCHANGED <<files, registry, cfg, ret, calls, head>>

\* head.get_loss(inputs, head.weights, heatmap, size, offset, iou) called
\* with an iou prediction, or with none
HeadGetLoss(v, iou) ==
    /\ head # NoHead
    /\ LET r == get_loss(head, head.weights, v, iou)
       IN  /\ out' = IF IsErr(r) THEN None ELSE r
           /\ exc' = IF IsErr(r) THEN r ELSE NoExc
    /\ lastOp' = Op("get_loss", <<iou>>)
    /\ UNCHANGED <<files, registry, cfg, ret, calls, head>>

InitHead ==
    /\ files = ConfigFiles
    /\ registry = PaddleSegRegistry
    /\ Idle

NextHead ==
    \/ \E hw \in Weights, ltrb \in BOOLEAN, sw \in Weights,
          sl \in {"L1", "giou", "smooth_l1"}, ow \in Weights, iw \in Weights :
           HeadConstruct(hw, ltrb, sw, sl, ow, iw)
    \/ \E training \in BOOLEAN : HeadSetMode(training)
    \/ \E v \in LossOutputs : HeadForward(v)
    \/ \E v \in LossOutputs, iou \in {None, Tensor("iou(feat)")} :
           HeadGetLoss(v, iou)

SpecHead == InitHead /\ [][NextHead]_vars

----------------------------------------------------------------------------
(* The iou branch and the return value of CenterNetHead.forward *)

OutKeys == IF IsDict(out) THEN DOMAIN out.v ELSE {}
SupportedSizeLoss == {"L1", "giou"}
BaseLossKeys == {"heatmap_loss", "size_loss", "offset_loss", "det_loss"}
HeadOutKeys == {"heatmap", "size", "offset"}

\* det_loss as the weighted sum of the losses returned beside it
WeightedSum ==
    head.weights.heatmap * out.v["heatmap_loss"].v
    + head.weights.size * out.v["size_loss"].v
    + head.weights.offset * out.v["offset_loss"].v
    + (IF "iou_loss" \in OutKeys
       THEN head.weights.iou * out.v["iou_loss"].v ELSE 0)

\* C8 as stated: after forward on a head built with iou_weight > 0 the
\* training losses contain iou_loss (and det_loss its weighted term) and the
\* evaluation outputs contain iou; with iou_weight = 0 there is no iou
\* branch, no iou_loss and no iou output.
C8_IouControlledByWeight ==
    (lastOp.op = "forward" /\ head.size_loss \in SupportedSizeLoss) =>
        /\ (head.weights.iou > 0 /\ head.training) =>
               /\ "iou" \in head.attrs
               /\ "iou_loss" \in OutKeys
               /\ out.v["det_loss"].v = WeightedSum
        /\ (head.weights.iou > 0 /\ ~head.training) => "iou" \in OutKeys
        /\ head.weights.iou = 0 =>
               /\ "iou" \notin head.attrs
               /\ "iou_loss" \notin OutKeys
               /\ "iou" \notin OutKeys

----------------------------------------------------------------------------
(* check_sync_info over a family of model and dataset configs *)

MaxClasses == 2
ChannelValues == {IntV(1), IntV(3)}
ClassValues == {IntV(n) : n \in 1..MaxClasses}

\* model: with and without num_classes, in_channels and a backbone (which
\* may name its in_channels)
SyncBackbones ==
    WithOpt({Dict([type |-> Str("ResNet")])}, "in_channels", ChannelValues)
SyncModels ==
    WithOpt(WithOpt(WithOpt({Dict([type |-> Str("UNet")])},
                            "num_classes", ClassValues),
                    "in_channels", ChannelValues),
            "backbone", SyncBackbones)

\* A dataset config: empty, or of a registered type with and without
\* num_classes and img_channels
SyncDatasets ==
    {EmptyDict}
    \cup WithOpt(WithOpt({Dict([type |-> Str("Dataset")]),
                          Dict([type |-> Str("OpticDiscSeg")])},
                         "num_classes", ClassValues),
                 "img_channels", ChannelValues)

SyncConfigs ==
    {Dict([model |-> m, train_dataset |-> t, val_dataset |-> v]) :
        m \in SyncModels, t \in SyncDatasets, v \in SyncDatasets}
    \cup {Dict([model |-> m, train_dataset |-> t]) :
            m \in SyncModels, t \in SyncDatasets \ {EmptyDict}}

InitSync ==
    /\ files \in {(Cfg("seg.yml") :> d) : d \in SyncConfigs}
    /\ registry = PaddleSegRegistry
    /\ Idle

NextSync ==
    \/ Construct(Cfg("seg.yml"), None, None, None, None)
    \/ CheckSyncInfo

SpecSync == InitSync /\ [][NextSync]_vars

DatasetKeys == {"train_dataset", "val_dataset"}

\* The non-empty dataset configs of dic
Configured(dic) == {key \in DatasetKeys : Truthy(DictGet(dic, key, EmptyDict))}

\* Every num_classes to be found in dic: the model's, the entries of the
\* dataset configs and the NUM_CLASSES of the dataset classes
NumClassesFound(reg, dic) ==
    ({DictGet(dic.v["model"], "num_classes", None)}
     \cup {DictGet(dic.v[key], "num_classes", None) : key \in Configured(dic)}
     \cup {LET cls == DatasetClass(reg, dic.v[key])
           IN  IF HasAttr(cls, "NUM_CLASSES") THEN cls.attrs["NUM_CLASSES"]
               ELSE None : key \in Configured(dic)})
    \ {None}

\* C4 as stated: check_sync_info raises ValueError when no num_classes is
\* found and when the values found are not all equal; when it returns, the
\* model has a num_classes and every num_classes entry of a dataset config
\* and every NUM_CLASSES of a configured dataset class equals it.
C4_NumClassesSynced ==
    [][lastOp'.op = "check_sync_info" =>
          /\ NumClassesFound(registry, cfg.dic) = {} =>
                 exc' = Err("ValueError")
          /\ Cardinality(NumClassesFound(registry, cfg.dic)) > 1 =>
                 exc' = Err("ValueError")
          /\ exc' = NoExc =>
                 /\ HasKey(cfg'.dic.v["model"], "num_classes")
                 /\ NumClassesFound(registry, cfg'.dic)
                        = {cfg'.dic.v["model"].v["num_classes"]}]_vars

\* The model's channel setting: the backbone's in_channels when the model
\* has a backbone, the model's own otherwise (None when absent)
ChannelSetting(dic) ==
    IF HasKey(dic.v["model"], "backbone")
    THEN DictGet(dic.v["model"].v["backbone"], "in_channels", None)
    ELSE DictGet(dic.v["model"], "in_channels", None)

\* Every channel count to be found in dic
ChannelsFound(dic) ==
    ({ChannelSetting(dic)}
     \cup {DictGet(dic.v[key], "img_channels", None) : key \in Configured(dic)})
    \ {None}

\* C5: check_sync_info raises ValueError when the model's channel setting
\* and the img_channels of the dataset configs are not all equal; when it
\* returns the setting is present, is the value that was found (3 when none
\* was), equals every img_channels entry, and every dataset config of type
\* "Dataset" has img_channels equal to it.
C5_ImgChannelsSynced ==
    [][lastOp'.op = "check_sync_info" =>
          /\ Cardinality(ChannelsFound(cfg.dic)) > 1 =>
                 exc' = Err("ValueError")
          /\ exc' = NoExc =>
                 /\ ~IsNone(ChannelSetting(cfg'.dic))
                 /\ ChannelsFound(cfg'.dic) = {ChannelSetting(cfg'.dic)}
                 /\ IF ChannelsFound(cfg.dic) = {}
                    THEN ChannelSetting(cfg'.dic) = IntV(DefaultImgChannels)
                    ELSE ChannelsFound(cfg.dic) = {ChannelSetting(cfg'.dic)}
                 /\ \A key \in Configured(cfg'.dic) :
                        cfg'.dic.v[key].v["type"] = Str("Dataset") =>
                            /\ HasKey(cfg'.dic.v[key], "img_channels")
                            /\ cfg'.dic.v[key].v["img_channels"]
                                   = ChannelSetting(cfg'.dic)]_vars

\* check_sync_info has returned on a model with a backbone and has written
\* the channel count a dataset named to the backbone and to a dataset of
\* type "Dataset" that named none.
C5_Witness ==
    /\ lastOp.op = "check_sync_info"
    /\ exc = NoExc
    /\ HasKey(cfg.dic.v["model"], "backbone")
    /\ ~HasKey(files[Cfg("seg.yml")].v["model"].v["backbone"], "in_channels")
    /\ ChannelSetting(cfg.dic) = IntV(1)
    /\ HasKey(cfg.dic, "val_dataset")
    /\ HasKey(cfg.dic.v["val_dataset"], "type")
    /\ cfg.dic.v["val_dataset"].v["type"] = Str("Dataset")
    /\ ~HasKey(files[Cfg("seg.yml")].v["val_dataset"], "img_channels")
    /\ cfg.dic.v["val_dataset"].v["img_channels"] = IntV(1)

----------------------------------------------------------------------------
(* The loss properties over a family of loss and dataset configs *)

MaxTypes == 2
MaxCoef == 2

\* The items of types: a loss with and without ignore_index, and a
\* MixedLoss that nests a loss
LossItems ==
    WithOpt({Dict([type |-> Str("CrossEntropyLoss")])},
            "ignore_index", {IntV(DatasetDefaultIgnoreIndex), IntV(0)})
    \cup {Dict([type |-> Str("MixedLoss"),
                losses |-> List(<<Dict([type |-> Str("DiceLoss")])>>),
                coef |-> List(<<IntV(1)>>)])}

\* loss: with and without types and coef
LossChoices ==
    WithOpt(WithOpt({EmptyDict}, "types",
                    {List(q) : q \in UNION {[1..m -> LossItems] : m \in 0..MaxTypes}}),
            "coef",
            {List([i \in 1..m |-> IntV(1)]) : m \in 0..MaxCoef})

\* train_dataset: absent, or a Dataset with and without ignore_index
LossDatasets ==
    WithOpt({Dict([type |-> Str("Dataset")])}, "ignore_index", {IntV(0)})

LossBase ==
    Dict([model |-> Dict([type |-> Str("UNet")]),
          val_dataset |-> Dict([type |-> Str("Dataset")])])

LossConfigs ==
    WithOpt(WithOpt(WithOpt({LossBase}, "train_dataset", LossDatasets),
                    "loss", LossChoices),
            "distill_loss",
            {Dict([types |-> List(<<Dict([type |-> Str("DiceLoss")])>>),
                   coef |-> List(<<IntV(1), IntV(1)>>)]),
             Dict([types |-> List(<<Dict([type |-> Str("DiceLoss")]),
                                    Dict([type |-> Str("DiceLoss"),
                                          ignore_index |-> IntV(0)])>>),
                   coef |-> List(<<IntV(1)>>)])})

InitLoss ==
    /\ files \in {(Cfg("seg.yml") :> d) : d \in LossConfigs}
    /\ registry = PaddleSegRegistry
    /\ Idle

NextLoss ==
    \/ Construct(Cfg("seg.yml"), None, None, None, None)
    \/ Update(None, None, None, List(<<Str("loss.coef"), Str("[1, 1]")>>))
    \/ ReadLoss
    \/ ReadDistillLoss

SpecLoss == InitLoss /\ [][NextLoss]_vars

----------------------------------------------------------------------------
(* The lengths of a loss config and the ignore_index of the losses *)

LossReads == {"loss", "distill_loss"}

\* The losses kept by an earlier read of the property (None when none are)
CachedLosses(c, name) ==
    IF name = "loss" THEN c._losses
    ELSE IF c._distill_losses = Unset THEN None
    ELSE c._distill_losses

\* The number of constructor calls in cs that built an object of the class
Built_n(cs, class) ==
    Cardinality({i \in 1..Len(cs) : cs[i].v.v = class})

\* What C6 says of one read of the property name on the config dic: r is
\* the value returned, e the exception and cs the constructor calls.
LossLengths(dic, name, r, e, cs) ==
    LET args == DictGet(dic, name, EmptyDict)
        both == HasKey(args, "types") /\ HasKey(args, "coef")
        len_types == PyLen(args.v["types"])
        len_coef == PyLen(args.v["coef"])
    IN  /\ ~both => e = Err("ValueError")
        /\ (both /\ len_types \notin {1, len_coef}) => e = Err("ValueError")
        /\ e = NoExc =>
               /\ IsDict(r)
               /\ PyLen(r.v["types"]) = PyLen(r.v["coef"])
               /\ \A i \in 1..PyLen(r.v["types"]) :
                      r.v["types"].v[i].k = "obj"
        /\ (both /\ len_types = 1 /\ e = NoExc) =>
               PyLen(r.v["types"]) = len_coef

\* One type configured with n coef entries is instantiated n times by a
\* read that returns.
InstantiatedPerCoef(dic, name, e, cs) ==
    LET args == DictGet(dic, name, EmptyDict)
    IN  (/\ e = NoExc
         /\ HasKey(args, "types") /\ HasKey(args, "coef")
         /\ PyLen(args.v["types"]) = 1) =>
            Built_n(cs, args.v["types"].v[1].v["type"].v)
                = PyLen(args.v["coef"])

\* C6 as stated: every read of loss or distill_loss returns as many loss
\* objects as coef entries, one type with n coef entries is instantiated n
\* times, and the read raises ValueError when the lengths do not fit or
\* when types or coef is missing.
C6_LossLengths ==
    [][lastOp'.op \in LossReads =>
          LossLengths(cfg.dic, lastOp'.op, ret', exc', calls')]_vars

\* C6, amended: a read that finds no losses kept by an earlier read behaves
\* as stated on the config of that moment; a read that finds losses kept
\* returns them as they are, builds nothing and does not look at the config.
C6_LossLengthsWhenPrepared ==
    [][lastOp'.op \in LossReads =>
          IF IsNone(CachedLosses(cfg, lastOp'.op))
          THEN /\ LossLengths(cfg.dic, lastOp'.op, ret', exc', calls')
               /\ InstantiatedPerCoef(cfg.dic, lastOp'.op, exc', calls')
          ELSE /\ ret' = CachedLosses(cfg, lastOp'.op)
               /\ exc' = NoExc
               /\ calls' = <<>>
               /\ PyLen(ret'.v["types"]) = PyLen(ret'.v["coef"])]_vars

\* One loss type configured with two coef entries was read: two objects of
\* the type were built and are kept.
C6_Witness ==
    /\ lastOp.op = "loss"
    /\ exc = NoExc
    /\ PyLen(cfg.dic.v["loss"].v["types"]) = 1
    /\ PyLen(cfg.dic.v["loss"].v["coef"]) = 2
    /\ PyLen(ret.v["types"]) = 2
    /\ Built_n(calls, cfg.dic.v["loss"].v["types"].v[1].v["type"].v) = 2
    /\ cfg._losses = ret

\* The ignore_index of the training dataset a config describes
ConfiguredIgnoreIndex(dic) ==
    DictGet(DictGet(dic, "train_dataset", EmptyDict), "ignore_index",
            IntV(DatasetDefaultIgnoreIndex))

\* The items of a list of loss configs or loss objects that are no MixedLoss
NotMixed(items) ==
    {i \in 1..Len(items) :
        IF items[i].k = "obj" THEN items[i].v.v # "MixedLoss"
        ELSE items[i].v["type"] # Str("MixedLoss")}

\* C7 as stated: on every Config construction accepts, a read of loss that
\* prepares the losses builds every loss other than MixedLoss with the
\* ignore_index of the training dataset, whether or not the loss config
\* sets one; when a loss config sets a different ignore_index the read
\* fails the assertion and returns nothing.
C7_LossIgnoreIndex ==
    [][(/\ lastOp'.op = "loss"
        /\ IsNone(cfg._losses)
        /\ HasKey(DictGet(cfg.dic, "loss", EmptyDict), "types")
        /\ HasKey(cfg.dic.v["loss"], "coef")
        /\ PyLen(cfg.dic.v["loss"].v["types"])
               \in {1, PyLen(cfg.dic.v["loss"].v["coef"])}
        /\ PyLen(cfg.dic.v["loss"].v["coef"]) > 0) =>
          LET items == cfg.dic.v["loss"].v["types"].v
              ignore_index == ConfiguredIgnoreIndex(cfg.dic)
          IN  IF \E i \in NotMixed(items) :
                     /\ HasKey(items[i], "ignore_index")
                     /\ items[i].v["ignore_index"] # ignore_index
              THEN exc' = Err("AssertionError") /\ IsNone(ret')
              ELSE /\ exc' = NoExc
                   /\ \A i \in NotMixed(ret'.v["types"].v) :
                          ret'.v["types"].v[i].params["ignore_index"]
                              = ignore_index]_vars

----------------------------------------------------------------------------
(* _load_object over a family of config trees *)

MaxItems == 2

\* The innermost dicts: two that describe an object (one of a class no
\* registry holds) and one without type
InnerTrees ==
    {Dict([type |-> Str("Normalize")]), Dict([type |-> Str("Nope")]),
     EmptyDict}

\* The items of a list value: a number, a dict, or a list of its own
TreeItems ==
    {IntV(1), Dict([type |-> Str("Normalize")]), EmptyDict,
     List(<<Dict([type |-> Str("Normalize")])>>)}

\* The values of losses: lists of at most one item, a number or a dict
LossLists ==
    {List(<<>>), List(<<IntV(1)>>), List(<<Dict([type |-> Str("DiceLoss")])>>),
     List(<<Dict([type |-> Str("Nope")])>>)}

\* The dicts of the middle level, with and without type: layers is a number
\* or a dict, transforms a list
MidTrees ==
    WithOpt(WithOpt({Dict([type |-> Str("ResNet")]), EmptyDict},
                    "layers", {IntV(1)} \cup InnerTrees),
            "transforms", ListsUpTo(TreeItems, MaxItems))

\* The config trees _load_object is called on
LoadTrees ==
    WithOpt(WithOpt({Dict([type |-> Str("UNet")]), EmptyDict},
                    "backbone", MidTrees),
            "losses", LossLists)

\* Lines 422-426: the method works on a copy of the dict it is given, and
\* pops type from the copy; caller is the dict the caller holds.
CopyThenPop(cfg_) == [caller |-> cfg_, cfg |-> DictDel(cfg_, "type")]

\* self._load_object(c); out is the dict passed, as the caller holds it
\* after the call.
LoadObject(c) ==
    /\ lastOp.op = "none"
    /\ LET r == _load_object(registry, c)
       IN  /\ ret' = IF IsErr(r.val) THEN None ELSE r.val
           /\ exc' = IF IsErr(r.val) THEN r.val ELSE NoExc
           /\ calls' = r.calls
    /\ out' = CopyThenPop(c).caller
    /\ lastOp' = Op("_load_object", <<c>>)
    /\ UNCHANGED <<files, registry, cfg, head>>

InitLoad ==
    /\ files = ConfigFiles
    /\ registry = PaddleSegRegistry
    /\ Idle

NextLoad == \E c \in LoadTrees : LoadObject(c)

SpecLoad == InitLoad /\ [][NextLoad]_vars

----------------------------------------------------------------------------
(* What _load_object builds, and in which order *)

\* A value that describes an object: a dict with a type key
Describes(x) == IsDict(x) /\ HasKey(x, "type")

\* The places of c that hold a description: <<key, 0>> for the value of a
\* key, <<key, i>> for the i-th item of a list value
ChildPositions(c) ==
    {<<key, 0>> : key \in {x \in DOMAIN c.v \ {"type"} : Describes(c.v[x])}}
    \cup UNION {{<<key, i>> : i \in {j \in 1..PyLen(c.v[key]) :
                                        Describes(c.v[key].v[j])}} :
                key \in {x \in DOMAIN c.v \ {"type"} : IsList(c.v[x])}}
ChildAt(c, pos) ==
    IF pos[2] = 0 THEN c.v[pos[1]] ELSE c.v[pos[1]].v[pos[2]]

RECURSIVE AllKnown(_, _)
\* Every description _load_object reaches in c names a registered class
AllKnown(reg, c) ==
    /\ ~IsErr(_load_component(reg, c.v["type"].v))
    /\ \A pos \in ChildPositions(c) : AllKnown(reg, ChildAt(c, pos))

RECURSIVE TypedCount(_)
RECURSIVE SumCounts(_, _)
\* The number of descriptions _load_object reaches in c, c included
SumCounts(c, S) ==
    IF S = {} THEN 0
    ELSE LET pos == CHOOSE x \in S : TRUE
         IN  TypedCount(ChildAt(c, pos)) + SumCounts(c, S \ {pos})
TypedCount(c) == 1 + SumCounts(c, ChildPositions(c))

RECURSIVE ExpectedObj(_, _)
\* The argument built from a value of c: the object of a description, a
\* list with the objects of its descriptions, any other value as it is
ExpectedParam(reg, x) ==
    IF Describes(x) THEN ExpectedObj(reg, x)
    ELSE IF IsList(x)
    THEN List([i \in 1..PyLen(x) |->
                  IF Describes(x.v[i]) THEN ExpectedObj(reg, x.v[i])
                  ELSE x.v[i]])
    ELSE x
\* The object of the description c: its class called with the arguments
\* built from every key but type
ExpectedObj(reg, c) ==
    New(_load_component(reg, c.v["type"].v),
        [key \in DOMAIN c.v \ {"type"} |-> ExpectedParam(reg, c.v[key])])

\* The objects among the arguments of obj
BuiltIn(obj) ==
    {obj.params[x] : x \in {y \in DOMAIN obj.params : obj.params[y].k = "obj"}}
    \cup UNION {{obj.params[x].v[i] :
                    i \in {j \in 1..PyLen(obj.params[x]) :
                              obj.params[x].v[j].k = "obj"}} :
                x \in {y \in DOMAIN obj.params : IsList(obj.params[y])}}

\* Every object among the arguments of a constructor call was built by an
\* earlier call
ChildrenFirst(cs) ==
    \A i \in 1..Len(cs) :
        \A ch \in BuiltIn(cs[i]) : \E j \in 1..(i - 1) : cs[j] = ch

\* C11: _load_object(cfg) returns after one constructor call for each
\* description it reaches, children before parents. It raises RuntimeError
\* when cfg has no type key (and when a class it needs is in no registry);
\* otherwise the constructor of cfg's type is called last, with every dict
\* value that has a type and every such list item replaced by the object
\* built from it, every other value as it is and no type argument; the dict
\* the caller gave is as it was.
C11_LoadObject ==
    lastOp.op = "_load_object" =>
        LET c == lastOp.args[1]
        IN  /\ out = c
            /\ ~HasKey(c, "type") =>
                   (exc = Err("RuntimeError") /\ IsNone(ret) /\ calls = <<>>)
            /\ (HasKey(c, "type") /\ ~AllKnown(registry, c)) =>
                   (exc = Err("RuntimeError") /\ IsNone(ret))
            /\ (HasKey(c, "type") /\ AllKnown(registry, c)) =>
                   /\ exc = NoExc
                   /\ ret = ExpectedObj(registry, c)
                   /\ "type" \notin DOMAIN ret.params
                   /\ Len(calls) = TypedCount(c)
                   /\ calls[Len(calls)] = ret
            /\ ChildrenFirst(calls)

\* A tree of three levels was built: the backbone and an item of its
\* transforms before the model, a dict without type passed as it is.
C11_Witness ==
    /\ lastOp.op = "_load_object"
    /\ exc = NoExc
    /\ ret.k = "obj"
    /\ Len(calls) = 4
    /\ "backbone" \in DOMAIN ret.params
    /\ ret.params["backbone"].k = "obj"
    /\ "transforms" \in DOMAIN ret.params["backbone"].params
    /\ PyLen(ret.params["backbone"].params["transforms"]) = 2
    /\ ret.params["backbone"].params["transforms"].v[1].k = "obj"
    /\ ret.params["backbone"].params["transforms"].v[2] = EmptyDict
    /\ "losses" \in DOMAIN ret.params
    /\ PyLen(ret.params["losses"]) = 1
    /\ ret.params["losses"].v[1].k = "obj"
    /\ calls[4] = ret

====
